---- MODULE Spec2Model ----
(***************************************************************************)
(* MultilabelOversampler (multilabel_oversampling.py): the constructor and *)
(* calls of fit, as a state machine.  A DataFrame is a sequence of         *)
(* rows [index, row]; a dispersion score is a record that is either the    *)
(* not-a-number value or carries k*(k-1)*std^2, the integer that orders    *)
(* sample standard deviations of k label counts exactly as std does        *)
(* (scores are compared exactly: the rounding of float64 is not modelled). *)
(* The flags tqdm_disable and details only steer printing and are left out.*)
(***************************************************************************)
EXTENDS Integers, Sequences, FiniteSets, TLC

\* ---------------------------------------------------------------- bounds
MaxRows == 4        \* rows of the caller's DataFrame
MaxAdds == 2        \* largest number_of_adds supplied
MaxTries == 3       \* largest number_of_tries supplied
MaxTrials == 6      \* largest number_of_adds * number_of_tries supplied

\* Bounds of the smaller runs (SmallInit).
SmallRows == 3       \* rows of the caller's DataFrame
SmallTries == 2      \* largest number_of_tries supplied
SmallTrials == 4     \* largest number_of_adds * number_of_tries supplied

\* ------------------------------------------------------ program constants
Sentinel == 1000000     \* the float 1e6 of __init__
Unbound == -1           \* a loop variable that no loop has assigned yet

VARIABLES
    args,             \* what the caller passed to __init__
    number_of_adds,   \* self.number_of_adds
    number_of_tries,  \* self.number_of_tries
    plot,             \* self.plot
    df,               \* the caller's DataFrame
    target_list,      \* fit's target_list
    pc,               \* position in fit
    df_new, res_std, res_bad, not_working, current_std,
    outer_it,         \* next value of range(self.number_of_adds)
    inner_it,         \* next value of range(self.number_of_tries)
    iter_, try_,      \* the loop variables (Unbound before their first assignment)
    drawn,            \* number of df.sample calls made
    stall,            \* the printed "No improvement" diagnostics: <<tries, iter>>
    error,            \* exception that left fit, "" while none
    result,           \* value returned by fit
    stream,           \* rows picked by numpy's generator since it was seeded
    pos,              \* number of picks taken since the last seeding
    calls,            \* number of calls of fit begun
    reseeded,         \* seed_everything was called again between the calls
    first             \* df_new and res_std at the end of the first call

vars == <<args, number_of_adds, number_of_tries, plot, df, target_list, pc,
          df_new, res_std, res_bad, not_working, current_std, outer_it,
          inner_it, iter_, try_, drawn, stall, error, result,
          stream, pos, calls, reseeded, first>>

\* The generator and the caller's bookkeeping across calls of fit.
callvars == <<stream, pos, calls, reseeded, first>>

\* ------------------------------------------------------------ input sets
\* Label patterns of a row of the caller's table (columns y1, y2, y3).
RowKinds ==
    { [y1 |-> 1, y2 |-> 0, y3 |-> 0],
      [y1 |-> 0, y2 |-> 1, y3 |-> 0],
      [y1 |-> 1, y2 |-> 1, y3 |-> 1] }

Columns == {"y1", "y2", "y3"}

\* A DataFrame built from rows with the default RangeIndex 0..n-1.
DataFrame(rows) == [i \in 1..Len(rows) |-> [index |-> i - 1, row |-> rows[i]]]

\* The label counts do not depend on the order of the rows, so the tables are
\* enumerated with their rows grouped by kind (y1 ones first).
Grouped(rows) ==
    \A i \in 1..(Len(rows) - 1) :
        \/ rows[i].y1 > rows[i + 1].y1
        \/ rows[i].y1 = rows[i + 1].y1 /\ rows[i].y2 <= rows[i + 1].y2

DataFrames ==
    UNION { { DataFrame(rows) : rows \in { s \in [1..n -> RowKinds] : Grouped(s) } }
            : n \in 1..MaxRows }

TargetLists ==
    { <<>>, <<"y1">>, <<"y1", "y2">>, <<"y1", "y2", "y3">>, <<"y1", "zz">> }

\* ---------------------------------------------------------------- numbers
\* A Python number as far as fit tells numbers apart: an int or a float.
Int_(n) == [float |-> FALSE, val |-> n]
Float_(n) == [float |-> TRUE, val |-> n]

\* __init__, lines 44-51: a falsy budget becomes the float 1e6.
Budget(n) == IF n # 0 THEN Int_(n) ELSE Float_(Sentinel)

\* range(n) accepts only integers.
RangeRaises(n) == n.float

\* Off by one: the loop runs once more than its budget.
InRangeInclusive(i, n) == i >= 0 /\ i <= n.val

\* i is produced by range(n).
InRange(i, n) == i >= 0 /\ i < n.val

\* ----------------------------------------------------------------- scores
NaN == [nan |-> TRUE, v |-> 0]
Num(x) == [nan |-> FALSE, v |-> x]

\* Float comparison: any comparison with not-a-number is false.
Less(a, b) == ~a.nan /\ ~b.nan /\ a.v < b.v

RECURSIVE SumSeq(_)
SumSeq(s) == IF s = <<>> THEN 0 ELSE Head(s) + SumSeq(Tail(s))

\* frame[cols]: KeyError when a name is not a column.
HasColumns(cols) == \A j \in 1..Len(cols) : cols[j] \in Columns

\* The sum of column c over the first n rows of frame.
RECURSIVE ColumnSum(_, _, _)
ColumnSum(frame, c, n) ==
    IF n = 0 THEN 0 ELSE frame[n].row[c] + ColumnSum(frame, c, n - 1)

\* frame[cols].sum(): the positive count of every selected column.
ColumnSums(frame, cols) ==
    [j \in 1..Len(cols) |-> ColumnSum(frame, cols[j], Len(frame))]

\* Series.std(), ddof = 1: not-a-number for fewer than two values, else the
\* sample standard deviation, carried as k*(k-1)*std^2 = k*sum(c^2) - sum(c)^2.
Std(counts) ==
    LET k == Len(counts)
        s == SumSeq(counts)
        q == SumSeq([j \in 1..k |-> counts[j] * counts[j]])
    IN  IF k < 2 THEN NaN ELSE Num(k * q - s * s)

Score(frame, cols) == Std(ColumnSums(frame, cols))

\* A tie accepted: <= in place of <.
ImprovesOrTies(new_std, cur_std) ==
    ~new_std.nan /\ ~cur_std.nan /\ new_std.v <= cur_std.v

\* The test written as "not new_std >= current_std": true of not-a-number.
ImprovesNotGeq(new_std, cur_std) ==
    ~(~new_std.nan /\ ~cur_std.nan /\ new_std.v >= cur_std.v)

\* line 83
Improves(new_std, cur_std) == Less(new_std, cur_std)

\* -------------------------------------------------------------------- Init
\* The state after MultilabelOversampler(number_of_adds, number_of_tries, plot),
\* with the arguments of the coming fit call chosen.  The locals of fit hold
\* placeholders until fit assigns them.
Init ==
    /\ args \in [number_of_adds : -1..MaxAdds, number_of_tries : -1..MaxTries,
                 plot : BOOLEAN]
    /\ (args.number_of_adds > 0 /\ args.number_of_tries > 0)
           => args.number_of_adds * args.number_of_tries <= MaxTrials
    /\ number_of_adds = Budget(args.number_of_adds)
    /\ number_of_tries = Budget(args.number_of_tries)
    /\ plot = args.plot
    /\ df \in DataFrames
    /\ target_list \in TargetLists
    /\ pc = "ready"
    /\ df_new = <<>>
    /\ res_std = <<>>
    /\ res_bad = <<>>
    /\ not_working = <<>>
    /\ current_std = NaN
    /\ outer_it = 0
    /\ inner_it = 0
    /\ iter_ = Unbound
    /\ try_ = Unbound
    /\ drawn = 0
    /\ stall = <<>>
    /\ error = ""
    /\ result = [shape |-> "none", df |-> <<>>]
    /\ stream = <<>>
    /\ pos = 0
    /\ calls = 1
    /\ reseeded = FALSE
    /\ first = [df_new |-> <<>>, res_std |-> <<>>]

\* The exception swallowed: fit carries on and returns what it has.
RaiseSwallowed(e) == pc' = "returned" /\ error' = error

\* An exception leaves fit: nothing is returned.
Raise(e) == pc' = "raised" /\ error' = e

\* ----------------------------------------------------------------- actions
\* A step of fit runs from one point of choice to the next: up to the first
\* iteration, up to the first draw, from one draw to the next, or to the end.

\* plot_all_tries, line 117: res_bad[0] must exist and max() needs an element.
PlotRaises(bad) ==
    IF bad = <<>> THEN "IndexError"
    ELSE IF bad[1] = <<>> THEN "ValueError"
    ELSE ""

\* line 101
Reports(std_trace, flag) == Len(std_trace) > 0 /\ flag

\* lines 98-106: the traces are stored, reporting runs, fit returns.
Finish(frame, std_trace, bad_trace) ==
    IF Reports(std_trace, plot)
      THEN IF PlotRaises(bad_trace) # ""
             THEN Raise(PlotRaises(bad_trace)) /\ UNCHANGED result
             ELSE /\ pc' = "returned"
                  /\ result' = [shape |-> "df_plot", df |-> frame]
                  /\ UNCHANGED error
      ELSE /\ pc' = "returned"
           /\ result' = [shape |-> "df", df |-> frame]
           /\ UNCHANGED error

\* Off by one: the last try index compared with the budget itself.
TriesUsedUpOffByOne(t, n) == t = n.val

\* line 91
TriesUsedUp(t, n) == t + 1 = n.val

\* lines 91-94, after the try loop of iteration i, with try_ = t, df_new =
\* frame, res_std = std_trace and not_working = rejected: the stall
\* diagnostic and the break to line 98, or the rejected list is kept and the
\* outer loop goes on.
AfterTries(i, t, frame, std_trace, rejected) ==
    IF t = Unbound
      THEN /\ Raise("UnboundLocalError")
           /\ UNCHANGED <<stall, res_bad, result>>
      ELSE IF TriesUsedUp(t, number_of_tries)
        THEN /\ stall' = Append(stall, <<number_of_tries.val, i>>)
             /\ Finish(frame, std_trace, res_bad)
             /\ UNCHANGED res_bad
        ELSE /\ res_bad' = Append(res_bad, rejected)
             /\ pc' = "outer"
             /\ UNCHANGED <<stall, error, result>>

\* fit, lines 65-73: copies, empty traces, and the outer range is built.
FitBegin ==
    /\ pc = "ready"
    /\ df_new' = df
    /\ res_std' = <<>>
    /\ res_bad' = <<>>
    /\ outer_it' = 0
    /\ IF RangeRaises(number_of_adds)
         THEN Raise("TypeError")
         ELSE pc' = "outer" /\ error' = error
    /\ UNCHANGED <<args, number_of_adds, number_of_tries, plot, df, target_list,
                   not_working, current_std, inner_it, iter_, try_, drawn,
                   stall, result, callvars>>

\* lines 73-78: the next iteration starts; current_std is taken, the
\* rejected list is emptied and the inner range is built.  An inner range
\* that yields nothing leads straight to line 91.
IterBegin ==
    /\ pc = "outer"
    /\ InRange(outer_it, number_of_adds)
    /\ iter_' = outer_it
    /\ outer_it' = outer_it + 1
    /\ IF ~HasColumns(target_list)
         THEN /\ Raise("KeyError")
              /\ UNCHANGED <<current_std, not_working, inner_it, stall,
                             res_bad, result>>
         ELSE /\ current_std' = Score(df_new, target_list)
              /\ not_working' = <<>>
              /\ inner_it' = 0
              /\ IF RangeRaises(number_of_tries)
                   THEN Raise("TypeError") /\ UNCHANGED <<stall, res_bad, result>>
                   ELSE IF InRange(0, number_of_tries)
                     THEN /\ pc' = "inner"
                          /\ UNCHANGED <<stall, res_bad, result, error>>
                     ELSE AfterTries(outer_it, try_, df_new, res_std, <<>>)
    /\ UNCHANGED <<args, number_of_adds, number_of_tries, plot, df, target_list,
                   df_new, res_std, try_, drawn, callvars>>

\* line 73: the outer range is exhausted; lines 98-106 follow.
IterEnd ==
    /\ pc = "outer"
    /\ ~InRange(outer_it, number_of_adds)
    /\ Finish(df_new, res_std, res_bad)
    /\ UNCHANGED <<args, number_of_adds, number_of_tries, plot, df, target_list,
                   df_new, res_std, res_bad, not_working, current_std, outer_it,
                   inner_it, iter_, try_, drawn, stall, callvars>>

\* The score before the trial recorded in place of the candidate's.
RejectedEntryCurrentStd(random_row, new_std) == <<random_row.index, current_std>>

\* line 90: what a rejected trial leaves in not_working.
RejectedEntry(random_row, new_std) == <<random_row.index, new_std>>

\* The appended row renumbered, as pd.concat(..., ignore_index=True) would.
ConcatIgnoreIndex(frame, row) ==
    Append(frame, [index |-> Len(frame), row |-> row.row])

\* line 80, pd.concat((df_new, random_row)): a new table, the rows of frame
\* followed by the drawn row under the index it has in df.
Concat(frame, row) == Append(frame, row)

\* lines 78-94: one try with random_row the row of df at position r.  An
\* accepted row breaks out of the try loop to line 91; a rejected one is
\* recorded, and line 91 follows when the inner range is exhausted.
TryRow(r) ==
    /\ pc = "inner"
    /\ InRange(inner_it, number_of_tries)
    /\ try_' = inner_it
    /\ inner_it' = inner_it + 1
    /\ drawn' = drawn + 1
    /\ LET random_row == df[r]
           df_interim == Concat(df_new, random_row)
           new_std == Score(df_interim, target_list)
           rejected == Append(not_working, RejectedEntry(random_row, new_std))
       IN  IF Improves(new_std, current_std)
             THEN /\ df_new' = df_interim
                  /\ res_std' = Append(res_std, new_std)
                  /\ UNCHANGED not_working
                  /\ AfterTries(iter_, inner_it, df_interim,
                                Append(res_std, new_std),
                                not_working)
             ELSE /\ not_working' = rejected
                  /\ UNCHANGED <<df_new, res_std>>
                  /\ IF InRange(inner_it + 1, number_of_tries)
                       THEN UNCHANGED <<pc, stall, res_bad, error, result>>
                       ELSE AfterTries(iter_, inner_it, df_new, res_std, rejected)
    /\ UNCHANGED <<args, number_of_adds, number_of_tries, plot, df, target_list,
                   current_std, outer_it, iter_>>

\* line 79 with the state of numpy's generator unknown: df.sample(n = 1)
\* draws any row of the caller's df.
Try ==
    /\ \E r \in 1..Len(df) : TryRow(r)
    /\ UNCHANGED callvars

\* line 79 with the generator seeded by seed_everything: the pick at each
\* position of its stream is fixed by the seed.  A position reached for the
\* first time may hold any row; reached again after a reseeding it holds
\* the row it held before.
SeededTry ==
    /\ \E r \in 1..Len(df) :
         /\ pos < Len(stream) => r = stream[pos + 1]
         /\ TryRow(r)
         /\ stream' = IF pos < Len(stream) THEN stream ELSE Append(stream, r)
    /\ pos' = pos + 1
    /\ UNCHANGED <<calls, reseeded, first>>

\* seed_everything, lines 13-18, called by the caller with the same seed
\* before the second call of fit: the generator is back at the start of its
\* stream.
SeedEverything ==
    /\ pc = "ready"
    /\ calls = 2
    /\ ~reseeded
    /\ pos' = 0
    /\ reseeded' = TRUE
    /\ UNCHANGED <<args, number_of_adds, number_of_tries, plot, df, target_list,
                   pc, df_new, res_std, res_bad, not_working, current_std,
                   outer_it, inner_it, iter_, try_, drawn, stall, error,
                   result, stream, calls, first>>

\* fit has returned and the caller calls it again with the same df and
\* target_list on the same object: the locals of fit are new, the object's
\* traces are reset (line 65), and nothing in fit touches the generator.
FitAgain ==
    /\ pc = "returned"
    /\ calls = 1
    /\ calls' = 2
    /\ first' = [df_new |-> df_new, res_std |-> res_std]
    /\ pc' = "ready"
    /\ df_new' = <<>>
    /\ res_std' = <<>>
    /\ res_bad' = <<>>
    /\ not_working' = <<>>
    /\ current_std' = NaN
    /\ outer_it' = 0
    /\ inner_it' = 0
    /\ iter_' = Unbound
    /\ try_' = Unbound
    /\ drawn' = 0
    /\ stall' = <<>>
    /\ error' = ""
    /\ result' = [shape |-> "none", df |-> <<>>]
    /\ UNCHANGED <<args, number_of_adds, number_of_tries, plot, df, target_list,
                   stream, pos, reseeded>>

Next == FitBegin \/ IterBegin \/ IterEnd \/ Try

Spec == Init /\ [][Next]_vars

\* Smaller runs, for the termination argument and for two calls of fit in
\* a row: both budgets positive integers and every target column in df.
SmallInit ==
    /\ Init
    /\ args.number_of_adds > 0
    /\ args.number_of_tries > 0
    /\ args.number_of_tries <= SmallTries
    /\ args.number_of_adds * args.number_of_tries <= SmallTrials
    /\ HasColumns(target_list)
    /\ Len(df) <= SmallRows

\* fit runs to its end: the interpreter never stops taking the next step.
FairSpec == SmallInit /\ [][Next]_vars /\ WF_vars(Next)

\* The caller seeds the generator, calls fit, and calls it a second time,
\* with or without seeding again in between.
SeededNext ==
    FitBegin \/ IterBegin \/ IterEnd \/ SeededTry \/ FitAgain \/ SeedEverything

SeededSpec == SmallInit /\ [][SeededNext]_vars

\* ------------------------------------------------------------ vocabulary
Terminal == pc \in {"returned", "raised"}

\* Both budgets as supplied are positive integers.
ValidConfig == args.number_of_adds > 0 /\ args.number_of_tries > 0

\* The WorkingSet after its first j accepted rows.
WorkingSetAfter(j) == SubSeq(df_new, 1, Len(df) + j)

\* The run stopped on the stall diagnostic of iteration i.
StalledAt(i) == stall = << <<number_of_tries.val, i>> >>

\* ------------------------------------------------------------------- C1
\* C1: every accepted row strictly lowered the dispersion score: the j-th
\* entry of res_std is the score of the WorkingSet with j accepted rows and
\* is strictly below the score of the WorkingSet with j - 1 accepted rows
\* (so a tie was not accepted), res_std is strictly decreasing and every
\* entry is below the initial score.
StrictDecrease ==
    (pc # "ready" /\ res_std # <<>>) =>
        /\ Len(df_new) = Len(df) + Len(res_std)
        /\ \A j \in 1..Len(res_std) :
              /\ res_std[j] = Score(WorkingSetAfter(j), target_list)
              /\ Less(res_std[j], Score(WorkingSetAfter(j - 1), target_list))
              /\ Less(res_std[j], Score(df, target_list))
              /\ j > 1 => Less(res_std[j], res_std[j - 1])

StrictDecreaseWitness == Len(res_std) = 2 /\ pc = "returned"

\* ------------------------------------------------------------------- C2
\* C2: once fit has made its copies, size(WorkingSet) = size(Dataset) + k
\* with k = len(res_std), and k never exceeds a positive number_of_adds.
SizeInvariant ==
    pc # "ready" =>
        /\ Len(df_new) = Len(df) + Len(res_std)
        /\ number_of_adds.val > 0 => Len(res_std) <= number_of_adds.val

SizeInvariantWitness ==
    /\ pc = "returned"
    /\ Len(res_std) = 2
    /\ number_of_adds = Int_(2)
    /\ Len(df_new) = Len(df) + 2

\* ------------------------------------------------------------------- C3
\* C3: a run that reported a stall at iteration i ended with exactly i
\* accepted rows: len(res_std) = i and size(WorkingSet) = size(Dataset) + i.
StallKeepsAcceptedCount ==
    \A i \in 0..MaxAdds :
        (StalledAt(i) /\ ValidConfig) =>
            Len(res_std) = i /\ Len(df_new) = Len(df) + i

\* ------------------------------------------------------------------- C4
\* C4: on return the accepted count equals max_iterations exactly when no
\* stall diagnostic was emitted; a stalled run has fewer accepted rows.
StallDistinguishable ==
    (pc = "returned" /\ ValidConfig) =>
        /\ (stall = <<>>) <=> (Len(res_std) = number_of_adds.val)
        /\ stall # <<>> => Len(res_std) < number_of_adds.val

\* ------------------------------------------------------------------- C5
\* C5: with positive integer budgets and all label columns of the Dataset at
\* the same positive count (at least two labels, initial score 0), every
\* try of iteration 0 is rejected whatever is drawn, nothing is accepted,
\* fit does not raise, the run stalls at iteration 0 after number_of_tries
\* tries and returns the original dataset.
EqualCounts ==
    /\ HasColumns(target_list)
    /\ Len(target_list) >= 2
    /\ Score(df, target_list) = Num(0)

BalancedStallsAtOnce ==
    (EqualCounts /\ ValidConfig /\ pc # "ready") =>
        /\ res_std = <<>>
        /\ df_new = df
        /\ pc # "raised"
        /\ iter_ \in {Unbound, 0}
        /\ Len(not_working) = drawn
        /\ Terminal => StalledAt(0) /\ drawn = number_of_tries.val
        /\ pc = "returned" => result = [shape |-> "df", df |-> df]

BalancedStallsAtOnceWitness ==
    /\ EqualCounts
    /\ pc = "returned"
    /\ StalledAt(0)
    /\ drawn = 3

\* ------------------------------------------------------------------- C6
\* C6: with number_of_adds = 0 fit returns the original dataset, draws no
\* candidate and leaves the accepted-score trace empty.
ZeroAddsReturnsOriginal ==
    (args.number_of_adds = 0 /\ pc # "ready") =>
        /\ pc # "raised"
        /\ drawn = 0
        /\ res_std = <<>>
        /\ pc = "returned" => result = [shape |-> "df", df |-> df]

\* ------------------------------------------------------------------- C7
\* C7: with a positive number_of_adds and a target_list naming a field the
\* dataset lacks, fit ends in the KeyError of the column selection before
\* any row is sampled: no try is made and nothing is returned.
MissingColumnFailsFirst ==
    (~HasColumns(target_list) /\ args.number_of_adds > 0) =>
        /\ drawn = 0
        /\ pc \in {"ready", "outer", "raised"}
        /\ pc = "raised" => error = "KeyError"
        /\ pc = "outer" => iter_ = Unbound
        /\ result.shape = "none"

MissingColumnFailsFirstWitness ==
    /\ ~HasColumns(target_list)
    /\ args.number_of_tries > 0
    /\ pc = "raised"
    /\ error = "KeyError"
    /\ iter_ = 0

\* ------------------------------------------------------------------- C8
\* C8: with an empty target_list fit fails before any iteration starts: no
\* candidate is drawn, no stall is reported and no dataset is returned.
EmptyTargetListFails ==
    (target_list = <<>> /\ ValidConfig) =>
        /\ drawn = 0
        /\ stall = <<>>
        /\ pc # "returned"

\* ------------------------------------------------------------------- C9
\* C9: with a budget that is non-positive after default substitution the
\* run fails before any iteration starts: no candidate is drawn and no
\* dataset is returned.
NonPositiveBudgetFails ==
    (number_of_adds.val <= 0 \/ number_of_tries.val <= 0) =>
        /\ drawn = 0
        /\ pc # "returned"

\* ------------------------------------------------------------------ C10
\* C10: with positive integer budgets and fewer than two label columns the
\* score is not-a-number at every evaluation, no try is accepted, fit does
\* not raise, the run stalls at iteration 0 and returns the original
\* dataset.
UndefinedMetricStalls ==
    (HasColumns(target_list) /\ Len(target_list) < 2 /\ ValidConfig
                             /\ pc # "ready") =>
        /\ current_std = NaN
        /\ \A j \in 1..Len(not_working) : not_working[j][2] = NaN
        /\ Len(not_working) = drawn
        /\ res_std = <<>>
        /\ df_new = df
        /\ pc # "raised"
        /\ iter_ \in {Unbound, 0}
        /\ Terminal => StalledAt(0) /\ drawn = number_of_tries.val
        /\ pc = "returned" => result = [shape |-> "df", df |-> df]

UndefinedMetricStallsWitness ==
    /\ target_list = <<"y1">>
    /\ pc = "returned"
    /\ StalledAt(0)
    /\ drawn = 3
    /\ not_working[3][2] = NaN

\* ------------------------------------------------------------------ C13
\* C13: a budget supplied as 0 (falsy) makes fit behave as it does for the
\* explicit budget 1,000,000: the constructor stores the integer 1000000 and
\* fit does not fail on the substituted value.
FalsyBudgetRunsAsMillion ==
    (args.number_of_adds = 0 \/ args.number_of_tries = 0) =>
        /\ args.number_of_adds = 0 => number_of_adds.val = Sentinel
        /\ args.number_of_tries = 0 => number_of_tries.val = Sentinel
        /\ error # "TypeError"

\* ------------------------------------------------------------------ C15
\* C15: the stall diagnostic is emitted only when every one of the
\* number_of_tries candidates of the current iteration was rejected; an
\* iteration that accepted a row, on its last try too, emits none.
StallOnlyAfterAllRejected ==
    (stall # <<>> /\ ValidConfig) => Len(not_working) = number_of_tries.val

\* ------------------------------------------------------------------ C16
\* C16: when fit returns after an iteration that rejected all of its
\* number_of_tries candidates, res_bad holds one list per iteration run and
\* its last entry is the rejected list of the stalled iteration.
StalledListIsRecorded ==
    (pc = "returned" /\ ValidConfig /\ stall # <<>>
                     /\ Len(not_working) = number_of_tries.val) =>
        /\ Len(res_bad) = iter_ + 1
        /\ res_bad[Len(res_bad)] = not_working

\* ------------------------------------------------------------------ C19
\* C19: when the loops of fit are over, the two traces are aligned: every
\* entry of res_std has its rejected list in res_bad, so
\* len(res_bad) >= len(res_std).
TracesAligned ==
    (Terminal /\ ValidConfig /\ HasColumns(target_list)) =>
        Len(res_bad) >= Len(res_std)

\* ------------------------------------------------------------------ C20
\* C20: whenever fit hands the traces to plot_all_tries (a row was accepted
\* and plot is set), res_bad[0] exists and is not empty, reporting does not
\* fail and fit returns.
ReportingNeverFails ==
    (Terminal /\ Reports(res_std, plot)) =>
        /\ res_bad # <<>>
        /\ res_bad[1] # <<>>
        /\ pc = "returned"

\* ------------------------------------------------------------------ C14
\* C14: once fit has made its copies, df_new is always the rows of df in
\* their order followed by one row per accepted score, each of them equal in
\* content and index to a row of df; a step of fit leaves df_new alone or
\* appends one row of df at its end, and df itself never changes.
WorkingSetIsOriginalPlusCopies ==
    /\ [](pc # "ready" =>
            /\ Len(df_new) = Len(df) + Len(res_std)
            /\ SubSeq(df_new, 1, Len(df)) = df
            /\ \A j \in (Len(df) + 1)..Len(df_new) :
                 \E r \in 1..Len(df) : df_new[j] = df[r])
    /\ [][/\ df' = df
          /\ pc # "ready" =>
               \/ df_new' = df_new
               \/ \E r \in 1..Len(df) : df_new' = Append(df_new, df[r])]_vars

\* The first row of a longer df was accepted twice: both copies stand at the
\* end of df_new under the index of the original.
WorkingSetIsOriginalPlusCopiesWitness ==
    /\ Len(df) > 1
    /\ Len(df_new) = Len(df) + 2
    /\ df_new[Len(df) + 1] = df[1]
    /\ df_new[Len(df) + 2] = df[1]

\* ------------------------------------------------------------------ C17
\* C17: a trial whose new score is not strictly below current_std leaves
\* df_new, res_std, res_bad and current_std as they were and appends the pair
\* (index of the candidate in df, new score) to not_working; an accepted
\* trial leaves not_working alone; no step of fit changes df.
RejectedTrialOnlyRecords ==
    [][/\ df' = df
       /\ (pc = "inner" /\ drawn' = drawn + 1) =>
            \E r \in 1..Len(df) :
              LET new_std == Score(Append(df_new, df[r]), target_list)
              IN  IF Less(new_std, current_std)
                    THEN /\ df_new' = Append(df_new, df[r])
                         /\ not_working' = not_working
                    ELSE /\ df_new' = df_new
                         /\ res_std' = res_std
                         /\ res_bad' = res_bad
                         /\ current_std' = current_std
                         /\ not_working' =
                              Append(not_working, <<df[r].index, new_std>>)]_vars

\* After an accepted row, a later iteration has rejected two candidates with
\* defined scores above current_std.
RejectedTrialOnlyRecordsWitness ==
    /\ res_std # <<>>
    /\ Len(not_working) = 2
    /\ Len(df_new) = Len(df) + Len(res_std)
    /\ \A k \in 1..2 : /\ ~not_working[k][2].nan
                       /\ Less(current_std, not_working[k][2])

\* ------------------------------------------------------------------ C18
\* The loops of fit are over for one of their two reasons: an iteration used
\* its last try (line 91), or the outer range gave out after number_of_adds
\* iterations.  What may still fail then is the reporting of lines 101-105.
LoopOver ==
    /\ Terminal
    /\ error \in {"", "IndexError", "ValueError"}
    /\ \/ stall # <<>> /\ try_ + 1 = number_of_tries.val
       \/ /\ stall = <<>>
          /\ outer_it = number_of_adds.val
          /\ Len(res_std) = number_of_adds.val

\* C18: with both budgets positive integers and every target column in df,
\* whatever rows are drawn, fit draws at most number_of_adds *
\* number_of_tries candidates, its loops eventually end, and they end only
\* because the outer range is exhausted or an iteration used its last try;
\* a score of zero does not end them.
TerminatesWithinBudget ==
    /\ [](ValidConfig => drawn <= number_of_adds.val * number_of_tries.val)
    /\ []((ValidConfig /\ HasColumns(target_list) /\ Terminal) => LoopOver)
    /\ (ValidConfig /\ HasColumns(target_list)) ~> LoopOver

\* The counts are level (score zero) after an accepted row and fit is still
\* trying candidates: one has been rejected and another try is due.
TerminatesWithinBudgetWitness ==
    /\ pc = "inner"
    /\ res_std # <<>>
    /\ current_std = Num(0)
    /\ not_working # <<>>
    /\ drawn < number_of_adds.val * number_of_tries.val

\* ------------------------------------------------------------------ C12
\* C12: every call of fit that returns hands back the pair (dataset, run
\* trace), shape "df_trace", whether or not a row was accepted and whatever
\* the plot flag.  (fit builds two shapes: "df", the table alone, and
\* "df_plot", the pair of the table and the pyplot module.)
ReturnsDatasetAndTrace ==
    (pc = "returned" /\ ValidConfig) => result.shape = "df_trace"

\* ------------------------------------------------------------------ C11
\* C11: with the generator seeded, a second call of fit with the same df,
\* target_list and budgets, made right after the first has returned or after
\* seeding again, returns the same accepted rows in the same order and the
\* same accepted-score trace as the first.
SuccessiveFitsAgree ==
    (calls = 2 /\ pc = "returned") =>
        /\ df_new = first.df_new
        /\ res_std = first.res_std

====
